---- MODULE Spec2Model ----
(***************************************************************************)
(* The alert dispatch subsystem of go-logging-lib: alerts.Manager with its *)
(* priority filter, its keyed suppression window, its fan-out to the       *)
(* registered alerters and its Cleanup pass.                               *)
(*                                                                         *)
(* Time is the monotonic clock read by time.Now / time.Since, counted in   *)
(* whole seconds.  A call of Alert by one caller is one action that takes  *)
(* no time on that scale: time.Since in isRateLimited and time.Now in      *)
(* markAlerted read the same second.  Every `go func` started by Alert is  *)
(* a task of its own that runs at any later moment.  For callers that run  *)
(* concurrently, Alert and Cleanup are also given statement by statement,  *)
(* with the mutex, in the actions AlertStart to CleanupUnlock.             *)
(***************************************************************************)
EXTENDS Integers, Sequences, FiniteSets, TLC

VARIABLES
    given,      \* the Config value handed to NewManager
    config,     \* Manager.config
    alerters,   \* Manager.alerters, a sequence of alerters
    lastAlert,  \* Manager.lastAlert, a map from alert key to time
    clock,      \* the monotonic clock, in seconds
    tasks,      \* the goroutines started by Alert that have not yet run
    sends,      \* history: the Send invocations made so far
    errlog,     \* history: the "[AlertManager] failed to send" lines printed
    ncalls,     \* history: number of Alert calls made; call i has id i
    fanouts,    \* history: the calls that reached the fan-out
    last,       \* history: the most recent Alert call and what it did
    hist,       \* history: per (ServiceName, Error, Path, Method), the calls so far
    mu,         \* Manager.mu, the holders of the read lock and of the write lock
    calls,      \* the Alert calls in progress in concurrent callers, step by step
    cleaner,    \* the Cleanup call in progress in a concurrent caller
    stuck,      \* the goroutines whose Send never returns
    regcalls,   \* history: the alerters Register was called with, in order
    crashed,    \* the process was ended by a panic that nothing recovered
    loki,       \* history: the lines written to the Loki writer, in order
    errfile,    \* history: the entries written to the error log, in order
    ginctx      \* the Gin request in progress: its gin.Context

\* The state of concurrent callers, and of the goroutines that do not return.
concVars == <<mu, calls, cleaner>>

faultVars == <<stuck, crashed>>

\* The state of the Logger and of the Gin middleware around the Manager.
logVars == <<loki, errfile, ginctx>>

vars == <<given, config, alerters, lastAlert, clock, tasks, sends, errlog,
          ncalls, fanouts, last, hist, mu, calls, cleaner, stuck, crashed,
          regcalls, loki, errfile, ginctx>>

(***************************************************************************)
(* Bounds of the model.                                                    *)
(***************************************************************************)
MaxRegistered == 2
MaxLongTime == 6
MaxLongCalls == 4
MaxTime == 5
MaxShortTime == 2
MaxCalls == 3
MaxFewCalls == 2
MaxStale == 1
MaxRequests == 2
MaxMarks == 2

(***************************************************************************)
(* Program constants.                                                      *)
(***************************************************************************)
DefaultRateLimitSec == 300

LevelWarn == "WARN"
LevelError == "ERROR"
LevelCritical == "CRITICAL"

(***************************************************************************)
(* Inputs.                                                                 *)
(***************************************************************************)
\* Level strings a caller can pass: the three alert levels, the logger's other
\* level INFO, the empty string and a lower-case spelling.
RecognizedLevels == {LevelWarn, LevelError, LevelCritical}
OtherLevels == {"INFO", "", "error"}
PayloadLevels == RecognizedLevels \cup OtherLevels

\* MinLevel is a string copied from the YAML configuration without validation.
MinLevels == RecognizedLevels \cup {"", "INFO"}

RateLimitInputs == {-1, 0, 2}

Configs == [Enabled : BOOLEAN, MinLevel : MinLevels, RateLimitSec : RateLimitInputs]

BasePayload ==
    [ServiceName |-> "svc", Level |-> LevelError, Error |-> "x",
     RequestID |-> "r1", Method |-> "GET", Path |-> "/a", IP |-> "10.0.0.1",
     UserAgent |-> "curl", File |-> "h.go", Line |-> 10,
     Stack |-> <<"h.go:10 main.h">>, Timestamp |-> 0]

Paths == {"/a", "/b"}

\* Payloads of every level string, all else as in BasePayload.
LevelShapes == {[BasePayload EXCEPT !.Level = l] : l \in PayloadLevels}

\* Payloads of the three alert levels and of one other level.
FanShapes ==
    {[BasePayload EXCEPT !.Level = l] : l \in RecognizedLevels \cup {"INFO"}}

\* Payloads of two keys, and one below the threshold of WindowConfigs.
WindowShapes ==
    {[BasePayload EXCEPT !.Path = p] : p \in Paths}
    \cup {[BasePayload EXCEPT !.Level = LevelWarn]}

\* Payloads that differ from BasePayload in the level or in one of the other
\* fields that are not part of the key, and one of another key.
KeyShapes ==
    {BasePayload,
     [BasePayload EXCEPT !.Level = LevelCritical],
     [BasePayload EXCEPT !.RequestID = "r2"],
     [BasePayload EXCEPT !.IP = "10.0.0.2"],
     [BasePayload EXCEPT !.UserAgent = "wget"],
     [BasePayload EXCEPT !.File = "g.go"],
     [BasePayload EXCEPT !.Line = 20],
     [BasePayload EXCEPT !.Stack = <<"g.go:20 main.g", "m.go:5 main.main">>],
     [BasePayload EXCEPT !.Path = "/b"]}

\* Logger.sendAlert stamps the payload with time.Now() before it calls Alert, so
\* the stamp is the clock value or an earlier one.
Stamps(now) == {t \in 0..now : now - t <= MaxStale}

\* The payloads of the given shapes stamped with the clock.
FreshPayloads(shapes, now) == {[s EXCEPT !.Timestamp = now] : s \in shapes}

\* The payloads of the given shapes a caller can submit at time `now`: each
\* shape stamped with the clock, and BasePayload with an older stamp too.
Payloads(shapes, now) ==
    FreshPayloads(shapes, now)
    \cup {[BasePayload EXCEPT !.Timestamp = t] : t \in Stamps(now)}

\* Status codes of responses, with the ends of the ranges of the levels.
StatusCodes == {200, 299, 300, 399, 400, 499, 500, 503}

\* Status codes a Gin handler responds with.
GinStatusCodes == {200, 399, 400, 500}

\* The error handed to the Logger: nil, or an error with its text.
NilError == "<nil>"

RequestErrors == {NilError, "x"}

\* An alerter: its Name() and what its Send does: it returns nil, returns an
\* error, never returns, or panics.
Alerter(name, outcome) ==
    [name |-> name, fails |-> outcome = "error", hangs |-> outcome = "hang",
     panics |-> outcome = "panic"]

OneAlerter == {Alerter("discord", "ok")}

AlerterPool ==
    {Alerter("discord", "ok"), Alerter("slack", "error"), Alerter("telegram", "ok")}

\* Three alerters of which one never returns from Send and one returns an
\* error.
HangPool ==
    {Alerter("discord", "ok"), Alerter("slack", "hang"), Alerter("telegram", "error")}

\* One alerter, whose Send never returns.
HangingAlerter == {Alerter("slack", "hang")}

\* The payloads of a session of calls, by the number of the call: a WARN, an
\* ERROR, then CRITICALs, all of one key.
ScenarioShape(k) ==
    [BasePayload EXCEPT !.Level = IF k = 1 THEN LevelWarn
                                  ELSE IF k = 2 THEN LevelError
                                  ELSE LevelCritical]

\* Two alerters, each of which can be registered more than once.
DupPool == {Alerter("discord", "ok"), Alerter("slack", "error")}

\* Three alerters of which one panics in Send.
PanicPool ==
    {Alerter("discord", "ok"), Alerter("slack", "panic"), Alerter("telegram", "ok")}

\* Payloads of two keys.
PathShapes == {[BasePayload EXCEPT !.Path = p] : p \in Paths}

\* Payloads whose error text or path has a colon in it: two of them differ
\* in the error and in the path.
ColonShapes ==
    {BasePayload,
     [BasePayload EXCEPT !.Error = "dial tcp: timeout"],
     [BasePayload EXCEPT !.Error = "x:/a", !.Path = "/b"],
     [BasePayload EXCEPT !.Error = "x", !.Path = "/a:/b"]}

(***************************************************************************)
(* alerts.Manager                                                          *)
(***************************************************************************)
EmptyMap == [k \in {} |-> 0]

\* Faulty variant: the given RateLimitSec is kept whatever it is.
NewManager_KeepGiven(cfg) ==
    [config |-> cfg,
     alerters |-> <<>>,
     lastAlert |-> EmptyMap]

NewManager(cfg) ==
    [config |-> IF cfg.RateLimitSec <= 0
                THEN [cfg EXCEPT !.RateLimitSec = DefaultRateLimitSec]
                ELSE cfg,
     alerters |-> <<>>,
     lastAlert |-> EmptyMap]

\* levelPriority[level], a Go map lookup: a missing key yields 0.
levelPriority(level) ==
    CASE level = "WARN" -> 1
      [] level = "ERROR" -> 2
      [] level = "CRITICAL" -> 3
      [] OTHER -> 0

\* Faulty variant: a level equal to the minimum does not pass.
shouldAlert_Strict(cfg, level) ==
    levelPriority(level) > levelPriority(cfg.MinLevel)

shouldAlert(cfg, level) ==
    levelPriority(level) >= levelPriority(cfg.MinLevel)

\* fmt.Sprintf("%s:%s:%s:%s", ...)
alertKeyData(payload) ==
    payload.ServiceName \o ":" \o payload.Error \o ":" \o payload.Path
        \o ":" \o payload.Method

\* fmt.Sprintf("%x", md5.Sum(data)): a digest, taken to be free of collisions.
md5Hex(data) == "md5(" \o data \o ")"

\* Faulty variant: the key leaves the path out.
getAlertKey_NoPath(payload) ==
    md5Hex(payload.ServiceName \o ":" \o payload.Error \o ":" \o payload.Method)

\* Faulty variant: the key takes the level in.
getAlertKey_WithLevel(payload) ==
    md5Hex(alertKeyData(payload) \o ":" \o payload.Level)

getAlertKey(payload) == md5Hex(alertKeyData(payload))

\* Faulty variant: a key that has an entry is limited whatever its age.
isRateLimited_Forever(la, cfg, payload, now) ==
    LET key == getAlertKey(payload)
    IN  key \in DOMAIN la

\* Faulty variant: the comparison of the window is the wrong way round.
isRateLimited_Inverted(la, cfg, payload, now) ==
    LET key == getAlertKey(payload)
    IN  IF key \notin DOMAIN la
        THEN FALSE
        ELSE now - la[key] > cfg.RateLimitSec

\* Faulty variant: the window is measured from the payload's Timestamp.
isRateLimited_ByStamp(la, cfg, payload, now) ==
    LET key == getAlertKey(payload)
    IN  IF key \notin DOMAIN la
        THEN FALSE
        ELSE payload.Timestamp - la[key] < cfg.RateLimitSec

\* Faulty variant: the end of the window still counts as inside it.
isRateLimited_Inclusive(la, cfg, payload, now) ==
    LET key == getAlertKey(payload)
    IN  IF key \notin DOMAIN la
        THEN FALSE
        ELSE now - la[key] <= cfg.RateLimitSec

isRateLimited(la, cfg, payload, now) ==
    LET key == getAlertKey(payload)
    IN  IF key \notin DOMAIN la
        THEN FALSE
        ELSE now - la[key] < cfg.RateLimitSec

\* Faulty variant: an entry that exists is not overwritten.
markAlerted_KeepFirst(la, payload, now) ==
    LET key == getAlertKey(payload)
    IN  [k \in DOMAIN la \cup {key} |-> IF k \in DOMAIN la THEN la[k] ELSE now]

\* Faulty variant: the map is made anew with the one entry.
markAlerted_Replace(la, payload, now) ==
    LET key == getAlertKey(payload)
    IN  [k \in {key} |-> now]

\* Faulty variant: the time stored is the Timestamp of the payload.
markAlerted_ByStamp(la, payload, now) ==
    LET key == getAlertKey(payload)
    IN  [k \in DOMAIN la \cup {key} |-> IF k = key THEN payload.Timestamp ELSE la[k]]

markAlerted(la, payload, now) ==
    LET key == getAlertKey(payload)
    IN  [k \in DOMAIN la \cup {key} |-> IF k = key THEN now ELSE la[k]]

\* Faulty variant: the expiry lacks its unit, time.Duration(RateLimitSec*2)
\* being nanoseconds, which is no whole second.
cleanupKeep_NoUnit(la, cfg, now) ==
    LET expiry == 0
        keep == {k \in DOMAIN la : ~(now - la[k] > expiry)}
    IN  [k \in keep |-> la[k]]

\* Faulty variant: the expiry is the window, not twice the window.
cleanupKeep_AtWindow(la, cfg, now) ==
    LET expiry == cfg.RateLimitSec
        keep == {k \in DOMAIN la : ~(now - la[k] > expiry)}
    IN  [k \in keep |-> la[k]]

\* The entries Cleanup leaves in the map.
cleanupKeep(la, cfg, now) ==
    LET expiry == cfg.RateLimitSec * 2
        keep == {k \in DOMAIN la : ~(now - la[k] > expiry)}
    IN  [k \in keep |-> la[k]]

\* Faulty variant: a suppressed duplicate refreshes the entry (a sliding window).
alertOutcome_Sliding(cfg, regs, la, payload, now) ==
    IF ~cfg.Enabled \/ ~shouldAlert(cfg, payload.Level)
    THEN [verdict |-> "dropped", lastAlert |-> la, spawn |-> 0]
    ELSE IF isRateLimited(la, cfg, payload, now)
    THEN [verdict |-> "suppressed", lastAlert |-> markAlerted(la, payload, now),
          spawn |-> 0]
    ELSE [verdict |-> "dispatched",
          lastAlert |-> markAlerted(la, payload, now),
          spawn |-> Len(regs)]

\* Faulty variant: the enabled flag is not looked at.
alertOutcome_IgnoreEnabled(cfg, regs, la, payload, now) ==
    IF ~shouldAlert(cfg, payload.Level)
    THEN [verdict |-> "dropped", lastAlert |-> la, spawn |-> 0]
    ELSE IF isRateLimited(la, cfg, payload, now)
    THEN [verdict |-> "suppressed", lastAlert |-> la, spawn |-> 0]
    ELSE [verdict |-> "dispatched",
          lastAlert |-> markAlerted(la, payload, now),
          spawn |-> Len(regs)]

\* Faulty variant: the entry is written only when there is an alerter to
\* send to.
alertOutcome_MarkIfRegistered(cfg, regs, la, payload, now) ==
    IF ~cfg.Enabled \/ ~shouldAlert(cfg, payload.Level)
    THEN [verdict |-> "dropped", lastAlert |-> la, spawn |-> 0]
    ELSE IF isRateLimited(la, cfg, payload, now)
    THEN [verdict |-> "suppressed", lastAlert |-> la, spawn |-> 0]
    ELSE [verdict |-> "dispatched",
          lastAlert |-> IF Len(regs) > 0 THEN markAlerted(la, payload, now) ELSE la,
          spawn |-> Len(regs)]

\* Faulty variant: a call that is dropped leaves its time in the map.
alertOutcome_MarkDropped(cfg, regs, la, payload, now) ==
    IF ~cfg.Enabled \/ ~shouldAlert(cfg, payload.Level)
    THEN [verdict |-> "dropped", lastAlert |-> markAlerted(la, payload, now),
          spawn |-> 0]
    ELSE IF isRateLimited(la, cfg, payload, now)
    THEN [verdict |-> "suppressed", lastAlert |-> la, spawn |-> 0]
    ELSE [verdict |-> "dispatched",
          lastAlert |-> markAlerted(la, payload, now),
          spawn |-> Len(regs)]

\* What one call of Alert does: which return it takes, the map it leaves and
\* the number of goroutines it starts.  `now` is the clock during the call.
alertOutcome(cfg, regs, la, payload, now) ==
    IF ~cfg.Enabled \/ ~shouldAlert(cfg, payload.Level)
    THEN [verdict |-> "dropped", lastAlert |-> la, spawn |-> 0]
    ELSE IF isRateLimited(la, cfg, payload, now)
    THEN [verdict |-> "suppressed", lastAlert |-> la, spawn |-> 0]
    ELSE [verdict |-> "dispatched",
          lastAlert |-> markAlerted(la, payload, now),
          spawn |-> Len(regs)]

(***************************************************************************)
(* History kept for stating the properties.                                *)
(***************************************************************************)
\* The four payload fields the key is made of.
KeyFields(payload) ==
    <<payload.ServiceName, payload.Error, payload.Path, payload.Method>>

NoCall == [made |-> FALSE]

NoHist == [seen |-> FALSE]

HistOf(h, payload) ==
    IF KeyFields(payload) \in DOMAIN h THEN h[KeyFields(payload)] ELSE NoHist

EntryOf(la, payload) ==
    IF getAlertKey(payload) \in DOMAIN la THEN la[getAlertKey(payload)] ELSE -1

OtherEntries(la, payload) ==
    [k \in DOMAIN la \ {getAlertKey(payload)} |-> la[k]]

\* The record of call `id`: the payload, the clock during the call, the
\* length of the registry, what the call did, the entry of its key before and
\* after, whether the other entries are as before, and the history of its
\* key fields before the call.
CallRecord(id, payload, now, regs, out, la, h) ==
    [made |-> TRUE, id |-> id, payload |-> payload, at |-> now,
     nregs |-> Len(regs), verdict |-> out.verdict, spawn |-> out.spawn,
     before |-> EntryOf(la, payload), after |-> EntryOf(out.lastAlert, payload),
     othersKept |-> OtherEntries(out.lastAlert, payload) = OtherEntries(la, payload),
     prior |-> HistOf(h, payload)]

\* The history of a key-field tuple after call `id`, which passed the enabled
\* and level checks: what the first such call did, the last dispatch (its
\* call, time and payload), and the number of duplicates suppressed since.
HistAfter(h, id, payload, now, out) ==
    LET t == KeyFields(payload)
        old == HistOf(h, payload)
        first == IF old.seen THEN old.firstVerdict ELSE out.verdict
        new == IF out.verdict = "dispatched"
               THEN [seen |-> TRUE, firstVerdict |-> first, dispId |-> id,
                     dispAt |-> now, dispPayload |-> payload, dups |-> 0]
               ELSE IF old.seen
               THEN [old EXCEPT !.dups = @ + 1]
               ELSE [seen |-> TRUE, firstVerdict |-> first, dispId |-> 0,
                     dispAt |-> -1, dispPayload |-> payload, dups |-> 1]
    IN  IF out.verdict = "dropped"
        THEN h
        ELSE [k \in DOMAIN h \cup {t} |-> IF k = t THEN new ELSE h[k]]

(***************************************************************************)
(* The state after construction.                                           *)
(***************************************************************************)
\* The zero value of sync.RWMutex: nobody holds it.
Unlocked == [readers |-> {}, writer |-> {}]

\* No Cleanup call is in progress.
Idle == [pc |-> "idle", todo |-> {}]

\* No Gin request is in progress.
NoRequest == [pc |-> "none"]

InitWith(cfgs) ==
    /\ given \in cfgs
    /\ config = NewManager(given).config
    /\ alerters = NewManager(given).alerters
    /\ lastAlert = NewManager(given).lastAlert
    /\ clock = 0
    /\ tasks = {}
    /\ sends = {}
    /\ errlog = {}
    /\ ncalls = 0
    /\ fanouts = {}
    /\ last = NoCall
    /\ hist = EmptyMap
    /\ mu = Unlocked
    /\ calls = EmptyMap
    /\ cleaner = Idle
    /\ stuck = {}
    /\ crashed = FALSE
    /\ regcalls = <<>>
    /\ loki = <<>>
    /\ errfile = <<>>
    /\ ginctx = NoRequest

\* Every configuration.
Init == InitWith(Configs)

\* An enabled manager with a short window.
WindowConfigs ==
    [Enabled : {TRUE}, MinLevel : {LevelError}, RateLimitSec : {2}]

InitWindow == InitWith(WindowConfigs)

\* An enabled manager with each of the three levels as its minimum.
FanConfigs ==
    [Enabled : {TRUE}, MinLevel : RecognizedLevels, RateLimitSec : {2}]

InitFan == InitWith(FanConfigs)

\* A manager, enabled or not, with a short window.
FrameConfigs ==
    [Enabled : BOOLEAN, MinLevel : {LevelError}, RateLimitSec : {2}]

InitFrame == InitWith(FrameConfigs)

\* An enabled manager with minimum level ERROR and a window of five seconds.
ScenarioConfigs ==
    [Enabled : {TRUE}, MinLevel : {LevelError}, RateLimitSec : {5}]

InitScenario == InitWith(ScenarioConfigs)

(***************************************************************************)
(* Operations.                                                             *)
(***************************************************************************)
\* Faulty variant: an alerter that is in the registry is not added again.
Register_Dedup(alerter) ==
    /\ ~crashed
    /\ alerters' = IF \E i \in 1..Len(alerters) : alerters[i] = alerter
                   THEN alerters
                   ELSE Append(alerters, alerter)
    /\ regcalls' = Append(regcalls, alerter)
    /\ UNCHANGED <<given, config, lastAlert, clock, tasks, sends, errlog,
                   ncalls, fanouts, last, hist, concVars, faultVars, logVars>>

Register(alerter) ==
    /\ ~crashed
    /\ alerters' = Append(alerters, alerter)
    /\ regcalls' = Append(regcalls, alerter)
    /\ UNCHANGED <<given, config, lastAlert, clock, tasks, sends, errlog,
                   ncalls, fanouts, last, hist, concVars, faultVars, logVars>>

\* Alert, as to the Manager and the history of its calls.
AlertBody(payload) ==
    LET out == alertOutcome(config, alerters, lastAlert, payload, clock)
        id == ncalls + 1
    IN  /\ ~crashed
        /\ lastAlert' = out.lastAlert
        /\ tasks' = tasks \cup
                {[id |-> id, idx |-> i, alerter |-> alerters[i], payload |-> payload]
                    : i \in 1..out.spawn}
        /\ ncalls' = id
        /\ fanouts' = IF out.verdict = "dispatched"
                      THEN fanouts \cup {[id |-> id, regs |-> alerters]}
                      ELSE fanouts
        /\ last' = CallRecord(id, payload, clock, alerters, out, lastAlert, hist)
        /\ hist' = HistAfter(hist, id, payload, clock, out)
        /\ UNCHANGED <<regcalls, given, config, alerters, clock, sends, errlog,
                       concVars, faultVars>>

\* Alert called on the Manager by its user.
Alert(payload) == AlertBody(payload) /\ UNCHANGED logVars

\* The record of one invocation of Send.
SendRecord(task) ==
    [id |-> task.id, idx |-> task.idx, name |-> task.alerter.name,
     payload |-> task.payload]

\* Faulty variant: an error from Send ends the fan-out of that alert.
SendTask_StopOnError(task) ==
    /\ ~crashed
    /\ task \in tasks
    /\ tasks' = IF task.alerter.fails
                THEN {t \in tasks : t.id # task.id}
                ELSE tasks \ {task}
    /\ sends' = sends \cup {SendRecord(task)}
    /\ errlog' = IF task.alerter.fails
                 THEN errlog \cup {[id |-> task.id, idx |-> task.idx,
                                    name |-> task.alerter.name]}
                 ELSE errlog
    /\ stuck' = IF task.alerter.hangs THEN stuck \cup {task} ELSE stuck
    /\ crashed' = task.alerter.panics
    /\ UNCHANGED <<logVars, regcalls, given, config, alerters, lastAlert, clock, ncalls, fanouts,
                   last, hist, concVars>>

\* Faulty variant: a Send that returned an error is made again.
SendTask_Retry(task) ==
    /\ ~crashed
    /\ task \in tasks
    /\ tasks' = IF task.alerter.fails THEN tasks ELSE tasks \ {task}
    /\ sends' = sends \cup {SendRecord(task)}
    /\ errlog' = IF task.alerter.fails
                 THEN errlog \cup {[id |-> task.id, idx |-> task.idx,
                                    name |-> task.alerter.name]}
                 ELSE errlog
    /\ stuck' = IF task.alerter.hangs THEN stuck \cup {task} ELSE stuck
    /\ crashed' = task.alerter.panics
    /\ UNCHANGED <<logVars, regcalls, given, config, alerters, lastAlert, clock, ncalls, fanouts,
                   last, hist, concVars>>

\* Faulty variant: the goroutines run one after the other, so that a Send
\* that never returns keeps the others from running.
SendTask_Sequential(task) ==
    /\ ~crashed
    /\ stuck = {}
    /\ task \in tasks
    /\ tasks' = tasks \ {task}
    /\ sends' = sends \cup {SendRecord(task)}
    /\ errlog' = IF task.alerter.fails
                 THEN errlog \cup {[id |-> task.id, idx |-> task.idx,
                                    name |-> task.alerter.name]}
                 ELSE errlog
    /\ stuck' = IF task.alerter.hangs THEN stuck \cup {task} ELSE stuck
    /\ crashed' = task.alerter.panics
    /\ UNCHANGED <<logVars, regcalls, given, config, alerters, lastAlert, clock, ncalls, fanouts,
                   last, hist, concVars>>

\* One goroutine of the fan-out: it calls a.Send(payload).  A Send that
\* returns an error has its line printed; a Send that never returns keeps its
\* goroutine for ever; a Send that panics ends the process, since the
\* goroutine has no recover.
SendTask(task) ==
    /\ ~crashed
    /\ task \in tasks
    /\ tasks' = tasks \ {task}
    /\ sends' = sends \cup {SendRecord(task)}
    /\ errlog' = IF task.alerter.fails
                 THEN errlog \cup {[id |-> task.id, idx |-> task.idx,
                                    name |-> task.alerter.name]}
                 ELSE errlog
    /\ stuck' = IF task.alerter.hangs THEN stuck \cup {task} ELSE stuck
    /\ crashed' = task.alerter.panics
    /\ UNCHANGED <<logVars, regcalls, given, config, alerters, lastAlert, clock, ncalls, fanouts,
                   last, hist, concVars>>

Cleanup ==
    /\ ~crashed
    /\ lastAlert' = cleanupKeep(lastAlert, config, clock)
    /\ UNCHANGED <<logVars, regcalls, given, config, alerters, clock, tasks, sends, errlog,
                   ncalls, fanouts, last, hist, concVars, faultVars>>

\* A second passes.
Tick ==
    /\ clock' = clock + 1
    /\ UNCHANGED <<logVars, regcalls, given, config, alerters, lastAlert, tasks, sends, errlog,
                   ncalls, fanouts, last, hist, concVars, faultVars>>

(***************************************************************************)
(* Alert and Cleanup in concurrent callers, one step per statement that    *)
(* touches the mutex, the map or the clock.  calls[c] is the call of       *)
(* caller c: the statement it is at, its payload, the values isRateLimited *)
(* read under the read lock, and the time markAlerted stored.              *)
(***************************************************************************)
\* The caller of Cleanup, as a holder of the mutex; the callers of Alert are
\* numbered from 1.
Cleaner == 0

\* sync.RWMutex: RLock waits while a writer holds the mutex, Lock waits while
\* anyone holds it.
CanRLock(m) == m.writer = {}

CanLock(m) == m.readers = {} /\ m.writer = {}

\* lastTime, exists := m.lastAlert[key], as a map of at most one entry.
Looked(call) ==
    IF call.exists
    THEN [k \in {getAlertKey(call.payload)} |-> call.lastTime]
    ELSE EmptyMap

\* The caller enters Alert: the checks of Enabled and of the level.
AlertStart(c, payload) ==
    /\ ~crashed
    /\ c \notin DOMAIN calls
    /\ calls' = [k \in DOMAIN calls \cup {c} |->
                    IF k = c
                    THEN [pc |-> IF ~config.Enabled \/ ~shouldAlert(config, payload.Level)
                                 THEN "dropped" ELSE "rlock",
                          payload |-> payload, exists |-> FALSE, lastTime |-> 0,
                          at |-> -1]
                    ELSE calls[k]]
    /\ ncalls' = ncalls + 1
    /\ UNCHANGED <<logVars, regcalls, given, config, alerters, lastAlert, clock, tasks, sends,
                   errlog, fanouts, last, hist, mu, cleaner, faultVars>>

\* isRateLimited: m.mu.RLock()
AlertRLock(c) ==
    /\ ~crashed
    /\ c \in DOMAIN calls /\ calls[c].pc = "rlock"
    /\ CanRLock(mu)
    /\ mu' = [mu EXCEPT !.readers = @ \cup {c}]
    /\ calls' = [calls EXCEPT ![c].pc = "lookup"]
    /\ UNCHANGED <<logVars, regcalls, given, config, alerters, lastAlert, clock, tasks, sends,
                   errlog, ncalls, fanouts, last, hist, cleaner, faultVars>>

\* isRateLimited: lastTime, exists := m.lastAlert[key]
AlertLookup(c) ==
    /\ ~crashed
    /\ c \in DOMAIN calls /\ calls[c].pc = "lookup"
    /\ calls' = [calls EXCEPT
                    ![c].pc = "runlock",
                    ![c].exists = getAlertKey(calls[c].payload) \in DOMAIN lastAlert,
                    ![c].lastTime = IF getAlertKey(calls[c].payload) \in DOMAIN lastAlert
                                    THEN lastAlert[getAlertKey(calls[c].payload)]
                                    ELSE 0]
    /\ UNCHANGED <<logVars, regcalls, given, config, alerters, lastAlert, clock, tasks, sends,
                   errlog, ncalls, fanouts, last, hist, mu, cleaner, faultVars>>

\* Faulty variant: the read lock is released only when the key has an entry.
AlertRUnlock_IfExists(c) ==
    /\ ~crashed
    /\ c \in DOMAIN calls /\ calls[c].pc = "runlock"
    /\ mu' = IF calls[c].exists THEN [mu EXCEPT !.readers = @ \ {c}] ELSE mu
    /\ calls' = [calls EXCEPT ![c].pc = "since"]
    /\ UNCHANGED <<logVars, regcalls, given, config, alerters, lastAlert, clock, tasks, sends,
                   errlog, ncalls, fanouts, last, hist, cleaner, faultVars>>

\* isRateLimited: m.mu.RUnlock()
AlertRUnlock(c) ==
    /\ ~crashed
    /\ c \in DOMAIN calls /\ calls[c].pc = "runlock"
    /\ mu' = [mu EXCEPT !.readers = @ \ {c}]
    /\ calls' = [calls EXCEPT ![c].pc = "since"]
    /\ UNCHANGED <<logVars, regcalls, given, config, alerters, lastAlert, clock, tasks, sends,
                   errlog, ncalls, fanouts, last, hist, cleaner, faultVars>>

\* isRateLimited: the test of exists and of time.Since(lastTime), made on the
\* values read, after the read lock was released; then the return of Alert.
AlertSince(c) ==
    /\ ~crashed
    /\ c \in DOMAIN calls /\ calls[c].pc = "since"
    /\ calls' = [calls EXCEPT
                    ![c].pc = IF isRateLimited(Looked(calls[c]), config,
                                               calls[c].payload, clock)
                              THEN "suppressed" ELSE "lock"]
    /\ UNCHANGED <<logVars, regcalls, given, config, alerters, lastAlert, clock, tasks, sends,
                   errlog, ncalls, fanouts, last, hist, mu, cleaner, faultVars>>

\* markAlerted: m.mu.Lock()
AlertLock(c) ==
    /\ ~crashed
    /\ c \in DOMAIN calls /\ calls[c].pc = "lock"
    /\ CanLock(mu)
    /\ mu' = [mu EXCEPT !.writer = {c}]
    /\ calls' = [calls EXCEPT ![c].pc = "store"]
    /\ UNCHANGED <<logVars, regcalls, given, config, alerters, lastAlert, clock, tasks, sends,
                   errlog, ncalls, fanouts, last, hist, cleaner, faultVars>>

\* markAlerted: m.lastAlert[key] = time.Now()
AlertStore(c) ==
    /\ ~crashed
    /\ c \in DOMAIN calls /\ calls[c].pc = "store"
    /\ lastAlert' = markAlerted(lastAlert, calls[c].payload, clock)
    /\ calls' = [calls EXCEPT ![c].pc = "unlock", ![c].at = clock]
    /\ UNCHANGED <<logVars, regcalls, given, config, alerters, clock, tasks, sends, errlog, ncalls,
                   fanouts, last, hist, mu, cleaner, faultVars>>

\* markAlerted: m.mu.Unlock()
AlertUnlock(c) ==
    /\ ~crashed
    /\ c \in DOMAIN calls /\ calls[c].pc = "unlock"
    /\ mu' = [mu EXCEPT !.writer = @ \ {c}]
    /\ calls' = [calls EXCEPT ![c].pc = "fanout"]
    /\ UNCHANGED <<logVars, regcalls, given, config, alerters, lastAlert, clock, tasks, sends,
                   errlog, ncalls, fanouts, last, hist, cleaner, faultVars>>

\* The loop over m.alerters, which starts one goroutine per entry, and the
\* return of Alert.
AlertFanOut(c) ==
    /\ ~crashed
    /\ c \in DOMAIN calls /\ calls[c].pc = "fanout"
    /\ tasks' = tasks \cup
            {[id |-> c, idx |-> i, alerter |-> alerters[i],
              payload |-> calls[c].payload] : i \in 1..Len(alerters)}
    /\ fanouts' = fanouts \cup {[id |-> c, regs |-> alerters]}
    /\ calls' = [calls EXCEPT ![c].pc = "dispatched"]
    /\ UNCHANGED <<logVars, regcalls, given, config, alerters, lastAlert, clock, sends, errlog,
                   ncalls, last, hist, mu, cleaner, faultVars>>

\* Cleanup is called while the mutex is held: the caller waits in
\* m.mu.Lock().
CleanupWait ==
    /\ ~crashed
    /\ cleaner.pc = "idle"
    /\ ~CanLock(mu)
    /\ cleaner' = [cleaner EXCEPT !.pc = "waiting"]
    /\ UNCHANGED <<logVars, regcalls, given, config, alerters, lastAlert, clock, tasks,
                   sends, errlog, ncalls, fanouts, last, hist, mu, calls, faultVars>>

\* Faulty variant: Cleanup takes the read lock for its pass.
CleanupLock_ReadLock ==
    /\ ~crashed
    /\ cleaner.pc \in {"idle", "waiting"}
    /\ CanRLock(mu)
    /\ mu' = [mu EXCEPT !.readers = @ \cup {Cleaner}]
    /\ cleaner' = [pc |-> "scan", todo |-> DOMAIN lastAlert]
    /\ UNCHANGED <<logVars, regcalls, given, config, alerters, lastAlert, clock, tasks, sends,
                   errlog, ncalls, fanouts, last, hist, calls, faultVars>>

\* Cleanup: m.mu.Lock(), by a caller that finds the mutex free or that has
\* waited for it, and the start of the range over the map.
CleanupLock ==
    /\ ~crashed
    /\ cleaner.pc \in {"idle", "waiting"}
    /\ CanLock(mu)
    /\ mu' = [mu EXCEPT !.writer = {Cleaner}]
    /\ cleaner' = [pc |-> "scan", todo |-> DOMAIN lastAlert]
    /\ UNCHANGED <<logVars, regcalls, given, config, alerters, lastAlert, clock, tasks, sends,
                   errlog, ncalls, fanouts, last, hist, calls, faultVars>>

\* Cleanup: one iteration of the range, in the order the map yields its keys.
CleanupVisit(key) ==
    /\ ~crashed
    /\ cleaner.pc = "scan"
    /\ key \in cleaner.todo
    /\ lastAlert' =
            IF clock - lastAlert[key] > config.RateLimitSec * 2
            THEN [k \in DOMAIN lastAlert \ {key} |-> lastAlert[k]]
            ELSE lastAlert
    /\ cleaner' = [cleaner EXCEPT !.todo = @ \ {key}]
    /\ UNCHANGED <<logVars, regcalls, given, config, alerters, clock, tasks, sends, errlog, ncalls,
                   fanouts, last, hist, mu, calls, faultVars>>

\* Cleanup: the end of the range and the deferred m.mu.Unlock().
CleanupUnlock ==
    /\ ~crashed
    /\ cleaner.pc = "scan"
    /\ cleaner.todo = {}
    /\ mu' = [mu EXCEPT !.writer = @ \ {Cleaner}]
    /\ cleaner' = Idle
    /\ UNCHANGED <<logVars, regcalls, given, config, alerters, lastAlert, clock, tasks, sends,
                   errlog, ncalls, fanouts, last, hist, calls, faultVars>>

(***************************************************************************)
(* logging.Logger, which owns the Manager, for requests that carry their   *)
(* Meta in the context.                                                    *)
(***************************************************************************)
\* The variables of the Manager and of the history of its calls.
managerVars ==
    <<given, config, alerters, lastAlert, clock, tasks, sends, errlog, ncalls,
      fanouts, last, hist, concVars, faultVars, regcalls>>

\* The level of a request, from its status code.
requestLevel(statusCode) ==
    IF statusCode >= 500 THEN "CRITICAL"
    ELSE IF statusCode >= 400 THEN "ERROR"
    ELSE IF statusCode >= 300 THEN "WARN"
    ELSE "INFO"

\* The payload sendAlert makes of the level, the error and the request's Meta.
alertPayload(level, err) ==
    [BasePayload EXCEPT !.Level = level, !.Error = err, !.Timestamp = clock]

\* Logger.sendAlert: nothing without a Manager, which setupAlertManager makes
\* only of an enabled configuration, and nothing without an error.
sendAlert(level, err) ==
    IF ~config.Enabled \/ err = NilError
    THEN UNCHANGED managerVars
    ELSE AlertBody(alertPayload(level, err))

\* The line LogLoki writes, and the call of Alert made for it, if any.
LokiLine(level, statusCode, err) ==
    [level |-> level, status |-> statusCode, err |-> err,
     alert |-> IF config.Enabled /\ err # NilError THEN ncalls + 1 ELSE 0]

\* Logger.LogRequestWithError, and Logger.LogRequest with a nil error.
LogRequestWithError(statusCode, err) ==
    LET level == requestLevel(statusCode)
    IN  /\ ~crashed
        /\ loki' = Append(loki, LokiLine(level, statusCode, err))
        /\ sendAlert(level, err)
        /\ UNCHANGED <<errfile, ginctx>>

(***************************************************************************)
(* A Gin request through the chain GinMiddleware, GinLogger,               *)
(* GinHTTPErrorLogger, GinRecovery and the handler, in the order the       *)
(* README gives.  ginctx is the gin.Context of the request: the keys set   *)
(* in it, c.Errors, the status of the writer; and, as history, the number  *)
(* of calls of LogErrorWithMark that had an error and that had none.       *)
(***************************************************************************)
\* The texts of the errors of a request that were not logged by the handler.
PanicInfo == "PANIC: boom"

GinErrors == "Error #01: oops"

HTTPError == "HTTP Error"

\* Logger.Error, which is LogError: an entry in the error log, unless the
\* error is nil.
LogError(log, req, err, by) ==
    IF err = NilError
    THEN log
    ELSE Append(log, [req |-> req, err |-> err, by |-> by])

\* Faulty variant: the mark is not looked at.
IsErrorLogged_Never(c) == FALSE

IsErrorLogged(c) == "error_logged_manually" \in c.keys

\* The part of the chain before the handler: a new gin.Context, whose
\* writer has the status 200.
GinBegin ==
    /\ ~crashed
    /\ ginctx.pc \in {"none", "done"}
    /\ ginctx' = [pc |-> "handler",
                  id |-> IF ginctx.pc = "none" THEN 1 ELSE ginctx.id + 1,
                  keys |-> {}, loggedError |-> NilError, errors |-> FALSE,
                  status |-> 200, withError |-> 0, withNil |-> 0]
    /\ UNCHANGED <<managerVars, loki, errfile>>

\* The handler calls Logger.LogErrorWithMark(c, err).
LogErrorWithMark(err) ==
    /\ ~crashed
    /\ ginctx.pc = "handler"
    /\ errfile' = LogError(errfile, ginctx.id, err, "handler")
    /\ ginctx' = [ginctx EXCEPT
                    !.keys = @ \cup {"logged_error", "error_logged_manually"},
                    !.loggedError = err,
                    !.withError = IF err = NilError THEN @ ELSE @ + 1,
                    !.withNil = IF err = NilError THEN @ + 1 ELSE @]
    /\ UNCHANGED <<managerVars, loki>>

\* The handler calls MarkErrorLogged(c) without logging.
MarkErrorLogged ==
    /\ ~crashed
    /\ ginctx.pc = "handler"
    /\ ginctx' = [ginctx EXCEPT !.keys = @ \cup {"error_logged_manually"}]
    /\ UNCHANGED <<managerVars, loki, errfile>>

\* The handler writes its response, with or without c.Error, and returns.
HandlerRespond(statusCode, withErrors) ==
    /\ ~crashed
    /\ ginctx.pc = "handler"
    /\ ginctx' = [ginctx EXCEPT !.status = statusCode, !.errors = withErrors,
                                !.pc = "after"]
    /\ UNCHANGED <<managerVars, loki, errfile>>

\* The handler panics before it has written a response: the deferred
\* function of GinRecovery sets panic_info and aborts with status 500.
GinRecovery ==
    /\ ~crashed
    /\ ginctx.pc = "handler"
    /\ ginctx' = [ginctx EXCEPT !.keys = @ \cup {"panic_info"}, !.status = 500,
                                !.pc = "after"]
    /\ UNCHANGED <<managerVars, loki, errfile>>

\* GinHTTPErrorLogger, the part after c.Next().
GinHTTPErrorLogger ==
    LET errMsg == IF "panic_info" \in ginctx.keys THEN PanicInfo
                  ELSE IF ginctx.errors THEN GinErrors
                  ELSE HTTPError
    IN  /\ ~crashed
        /\ ginctx.pc = "after"
        /\ errfile' = IF ginctx.status < 400 \/ IsErrorLogged(ginctx)
                      THEN errfile
                      ELSE LogError(errfile, ginctx.id, errMsg, "middleware")
        /\ ginctx' = [ginctx EXCEPT !.pc = "logger"]
        /\ UNCHANGED <<managerVars, loki>>

\* GinLogger, the part after c.Next(): the level from the status, the error
\* from the context, and Logger.Loki, which alerts when there is an error.
GinLogger ==
    LET level == requestLevel(ginctx.status)
        err == IF ginctx.status < 400 THEN NilError
               ELSE IF "panic_info" \in ginctx.keys THEN PanicInfo
               ELSE IF ginctx.errors THEN GinErrors
               ELSE IF "logged_error" \in ginctx.keys THEN ginctx.loggedError
               ELSE NilError
    IN  /\ ~crashed
        /\ ginctx.pc = "logger"
        /\ loki' = Append(loki, LokiLine(level, ginctx.status, err))
        /\ sendAlert(level, err)
        /\ ginctx' = [ginctx EXCEPT !.pc = "done"]
        /\ UNCHANGED errfile

(***************************************************************************)
(* Specifications.  The bounds guard the callers, not the code.            *)
(***************************************************************************)
\* The alerters in the registry.
Registered == {alerters[i] : i \in 1..Len(alerters)}

\* The manager under every configuration, with payloads of every level.
Next ==
    \/ \E a \in OneAlerter \ Registered : Register(a)
    \/ \E p \in FreshPayloads(LevelShapes, clock) : ncalls < MaxFewCalls /\ Alert(p)
    \/ \E t \in tasks : SendTask(t)
    \/ Cleanup
    \/ clock < MaxTime /\ Tick

Spec == Init /\ [][Next]_vars

\* An enabled manager with a short window and an alerter registered during
\* startup, with payloads of two keys.
NextWindow ==
    \/ \E a \in OneAlerter \ Registered : ncalls = 0 /\ Register(a)
    \/ \E p \in Payloads(WindowShapes, clock) : ncalls < MaxCalls /\ Alert(p)
    \/ \E t \in tasks : SendTask(t)
    \/ Cleanup
    \/ clock < MaxTime /\ Tick

SpecWindow == InitWindow /\ [][NextWindow]_vars

\* The same manager over a few seconds, with payloads that agree on the key
\* and differ elsewhere.
NextKey ==
    \/ \E a \in OneAlerter \ Registered : Register(a)
    \/ \E p \in FreshPayloads(KeyShapes, clock) : ncalls < MaxFewCalls /\ Alert(p)
    \/ \E t \in tasks : SendTask(t)
    \/ Cleanup
    \/ clock < MaxShortTime /\ Tick

SpecKey == InitWindow /\ [][NextKey]_vars

\* An enabled manager with up to three different alerters, registered during
\* startup, one of which fails, with payloads of four levels, over a few
\* seconds.
NextFan ==
    \/ \E a \in AlerterPool \ Registered : ncalls = 0 /\ Register(a)
    \/ \E p \in FreshPayloads(FanShapes, clock) : ncalls < MaxFewCalls /\ Alert(p)
    \/ \E t \in tasks : SendTask(t)
    \/ Cleanup
    \/ clock < MaxShortTime /\ Tick

SpecFan == InitFan /\ [][NextFan]_vars

\* An enabled manager with up to three alerters, registered during startup,
\* one of which never returns from Send, with payloads of two keys.
NextHang ==
    \/ \E a \in HangPool \ Registered : ncalls = 0 /\ Register(a)
    \/ \E p \in FreshPayloads(PathShapes, clock) : ncalls < MaxFewCalls /\ Alert(p)
    \/ \E t \in tasks : SendTask(t)
    \/ Cleanup
    \/ clock < MaxStale /\ Tick

\* The Go scheduler runs every goroutine that can run: a goroutine started by
\* Alert is not left waiting for ever.
SpecHang ==
    InitWindow /\ [][NextHang]_vars /\ WF_vars(\E t \in tasks : SendTask(t))

\* An enabled manager with up to three alerters, registered during startup,
\* one of which panics in Send, with payloads of two keys.
NextPanic ==
    \/ \E a \in PanicPool \ Registered : ncalls = 0 /\ Register(a)
    \/ \E p \in FreshPayloads(PathShapes, clock) : ncalls < MaxFewCalls /\ Alert(p)
    \/ \E t \in tasks : SendTask(t)
    \/ Cleanup
    \/ clock < MaxShortTime /\ Tick

SpecPanic == InitWindow /\ [][NextPanic]_vars

\* An enabled manager with two alerters that are registered any number of
\* times during startup, with payloads of two keys.
NextDup ==
    \/ \E a \in DupPool :
            ncalls = 0 /\ Len(alerters) < MaxRegistered /\ Register(a)
    \/ \E p \in FreshPayloads(PathShapes, clock) : ncalls < MaxFewCalls /\ Alert(p)
    \/ \E t \in tasks : SendTask(t)
    \/ Cleanup
    \/ clock < MaxStale /\ Tick

SpecDup == InitWindow /\ [][NextDup]_vars

\* A session of calls on a manager with two alerters registered during
\* startup: the calls come in the order of ScenarioShape, at any moments.
NextScenario ==
    \/ \E a \in DupPool \ Registered : ncalls = 0 /\ Register(a)
    \/ \E p \in FreshPayloads({ScenarioShape(ncalls + 1)}, clock) :
            ncalls < MaxLongCalls /\ Alert(p)
    \/ \E t \in tasks : SendTask(t)
    \/ Cleanup
    \/ clock < MaxLongTime /\ Tick

SpecScenario == InitScenario /\ [][NextScenario]_vars

\* An enabled manager with an alerter registered during startup, with
\* payloads that have colons in their fields.
NextColon ==
    \/ \E a \in OneAlerter \ Registered : ncalls = 0 /\ Register(a)
    \/ \E p \in FreshPayloads(ColonShapes, clock) : ncalls < MaxFewCalls /\ Alert(p)
    \/ \E t \in tasks : SendTask(t)
    \/ Cleanup
    \/ clock < MaxShortTime /\ Tick

SpecColon == InitWindow /\ [][NextColon]_vars

\* A manager, enabled or not, whose alerter is registered at any moment,
\* with payloads of two keys and one below the threshold.
NextFrame ==
    \/ \E a \in OneAlerter \ Registered : Register(a)
    \/ \E p \in FreshPayloads(WindowShapes, clock) : ncalls < MaxFewCalls /\ Alert(p)
    \/ \E t \in tasks : SendTask(t)
    \/ Cleanup
    \/ clock < MaxTime /\ Tick

SpecFrame == InitFrame /\ [][NextFrame]_vars

\* The steps of the calls of Alert that are in progress.
AlertSteps ==
    \/ \E c \in DOMAIN calls : AlertRLock(c)
    \/ \E c \in DOMAIN calls : AlertLookup(c)
    \/ \E c \in DOMAIN calls : AlertRUnlock(c)
    \/ \E c \in DOMAIN calls : AlertSince(c)
    \/ \E c \in DOMAIN calls : AlertLock(c)
    \/ \E c \in DOMAIN calls : AlertStore(c)
    \/ \E c \in DOMAIN calls : AlertUnlock(c)
    \/ \E c \in DOMAIN calls : AlertFanOut(c)

\* The steps of Cleanup.
CleanupSteps ==
    \/ CleanupLock
    \/ \E k \in cleaner.todo : CleanupVisit(k)
    \/ CleanupUnlock

\* Concurrent callers of Alert with payloads of two keys and a concurrent
\* caller of Cleanup, on an enabled manager with no alerter registered.
NextRace ==
    \/ \E p \in PathShapes : ncalls < MaxFewCalls /\ AlertStart(ncalls + 1, p)
    \/ AlertSteps
    \/ CleanupSteps
    \/ clock < MaxTime /\ Tick

SpecRace == InitWindow /\ [][NextRace]_vars

\* A burst of concurrent callers of Alert with the same payload.
NextBurst ==
    \/ \E a \in OneAlerter \ Registered : ncalls = 0 /\ Register(a)
    \/ ncalls < MaxCalls /\ AlertStart(ncalls + 1, BasePayload)
    \/ AlertSteps
    \/ CleanupSteps
    \/ \E t \in tasks : SendTask(t)
    \/ clock < MaxStale /\ Tick

SpecBurst == InitWindow /\ [][NextBurst]_vars

\* A few concurrent callers of Alert with payloads of one key, each stamped
\* when its call begins, and a concurrent caller of Cleanup.
NextPair ==
    \/ \E p \in FreshPayloads({BasePayload}, clock) :
            ncalls < MaxFewCalls /\ AlertStart(ncalls + 1, p)
    \/ AlertSteps
    \/ CleanupSteps
    \/ clock < MaxStale /\ Tick

SpecPair == InitWindow /\ [][NextPair]_vars

\* The steps of a call that do not wait for the mutex.
AlertRuns(c) ==
    \/ AlertLookup(c)
    \/ AlertRUnlock(c)
    \/ AlertSince(c)
    \/ AlertStore(c)
    \/ AlertUnlock(c)
    \/ AlertFanOut(c)

\* Concurrent callers of Alert and of Cleanup, all within one second, on a
\* manager whose alerter, registered during startup, never returns from Send.
NextLive ==
    \/ \E a \in HangingAlerter \ Registered : ncalls = 0 /\ Register(a)
    \/ ncalls < MaxFewCalls /\ AlertStart(ncalls + 1, BasePayload)
    \/ AlertSteps
    \/ CleanupWait
    \/ CleanupSteps
    \/ \E t \in tasks : SendTask(t)

\* The Go scheduler runs every goroutine that can run, so a caller that does
\* not wait for the mutex takes its next step.  A caller that waits in RLock
\* or Lock gets the mutex: sync.Mutex hands it to a waiter that has waited
\* long (starvation mode), and sync.RWMutex keeps new readers out while a
\* writer waits.  Whether Alert or Cleanup is called at all is up to the callers.
SpecLive ==
    /\ InitWindow
    /\ [][NextLive]_vars
    /\ \A c \in 1..MaxFewCalls :
            /\ WF_vars(AlertRuns(c))
            /\ SF_vars(AlertRLock(c))
            /\ SF_vars(AlertLock(c))
    /\ WF_vars(\E k \in cleaner.todo : CleanupVisit(k))
    /\ WF_vars(CleanupUnlock)
    /\ SF_vars(cleaner.pc = "waiting" /\ CleanupLock)

\* A Logger with alerts enabled and an alerter registered during startup,
\* logging requests of every status with and without an error.
NextLogger ==
    \/ \E a \in OneAlerter \ Registered : Len(loki) = 0 /\ Register(a)
    \/ \E s \in StatusCodes, e \in RequestErrors :
            Len(loki) < MaxFewCalls /\ LogRequestWithError(s, e)
    \/ \E t \in tasks : SendTask(t)
    \/ Cleanup
    \/ clock < MaxStale /\ Tick

SpecLogger == InitFan /\ [][NextLogger]_vars

\* Requests to a Gin server, one after the other, whose handlers log, mark,
\* respond and panic as they like; c.Error is used with a status of 400 or
\* more.  No alerter is registered.
NextGin ==
    \/ (ginctx.pc = "done" => ginctx.id < MaxRequests) /\ GinBegin
    \/ \E e \in RequestErrors :
            ginctx.pc = "handler"
                /\ ginctx.withError + ginctx.withNil < MaxMarks
                /\ LogErrorWithMark(e)
    \/ ginctx.pc = "handler" /\ ~IsErrorLogged(ginctx) /\ MarkErrorLogged
    \/ \E s \in GinStatusCodes, e \in BOOLEAN : (e => s >= 400) /\ HandlerRespond(s, e)
    \/ GinRecovery
    \/ GinHTTPErrorLogger
    \/ GinLogger

SpecGin == InitWindow /\ [][NextGin]_vars

(***************************************************************************)
(* Properties.  They are stated on the history of the calls: `last` is the *)
(* most recent call of Alert, `last.prior` the history of its key fields   *)
(* before that call.                                                       *)
(***************************************************************************)
\* The ordering of the levels, as the specification gives it.
Severity(level) == IF level = "WARN" THEN 1 ELSE IF level = "ERROR" THEN 2 ELSE 3

AtOrAbove(level, min) ==
    /\ level \in RecognizedLevels
    /\ min \in RecognizedLevels
    /\ Severity(level) >= Severity(min)

Below(level, min) ==
    /\ min \in RecognizedLevels
    /\ level \in RecognizedLevels => Severity(level) < Severity(min)

\* The last call was made on an enabled manager with a level at or above
\* min_level.
LastPasses ==
    /\ last.made
    /\ config.Enabled
    /\ AtOrAbove(last.payload.Level, config.MinLevel)

\* The last call has an earlier dispatched call of the same key fields.
LastHasFirst == last.made /\ last.prior.seen /\ last.prior.dispAt >= 0

\* Seconds from the recorded dispatch time of that earlier call to the last call.
SinceFirst == last.at - last.prior.dispAt

\* No goroutine was started for call `id` and no Send was made for it.
ReachedNoProvider(id) ==
    /\ \A t \in tasks : t.id # id
    /\ \A s \in sends : s.id # id

\* For every alerter that was registered when call `id` was made, the
\* goroutine of the call is waiting to run or has invoked Send.
ReachedEveryProvider(id, regs) ==
    \A i \in 1..Len(regs) :
        \/ \E t \in tasks : t.id = id /\ t.idx = i /\ t.alerter = regs[i]
        \/ \E s \in sends : s.id = id /\ s.idx = i /\ s.name = regs[i].name

\* C1: of two calls with the same (ServiceName, Error, Path, Method) and a
\* passing level on an enabled manager, the second made after the first
\* returned and less than RateLimitSec seconds after the first's dispatch,
\* the first went to every registered provider and the second is suppressed
\* and reaches no provider.
C1_DedupWithinWindow ==
    (LastPasses /\ LastHasFirst /\ SinceFirst < config.RateLimitSec) =>
        /\ last.verdict = "suppressed"
        /\ last.spawn = 0
        /\ ReachedNoProvider(last.id)
        /\ \E f \in fanouts :
                f.id = last.prior.dispId /\ ReachedEveryProvider(f.id, f.regs)

C1_Witness ==
    /\ LastPasses /\ LastHasFirst /\ SinceFirst < config.RateLimitSec
    /\ SinceFirst > 0
    /\ last.verdict = "suppressed"
    /\ last.nregs > 0
    /\ \E s \in sends : s.id = last.prior.dispId

\* C2: a suppressed duplicate writes nothing: the entry of its key still holds
\* the time of the last dispatched alert and the other entries are as before;
\* so a call of the same key made RateLimitSec seconds or more after that
\* recorded time is dispatched, however many duplicates were suppressed since.
C2_WindowAnchoredAtFirst ==
    /\ (last.made /\ last.verdict = "suppressed") =>
            /\ last.after = last.before
            /\ last.othersKept
            /\ LastHasFirst
            /\ last.after = last.prior.dispAt
    /\ (LastPasses /\ LastHasFirst /\ SinceFirst >= config.RateLimitSec) =>
            last.verdict = "dispatched"

C2_Witness ==
    /\ LastPasses /\ LastHasFirst
    /\ SinceFirst = config.RateLimitSec
    /\ last.prior.dups > 0
    /\ last.verdict = "dispatched"

\* C3: of two calls with the same key and a passing level, the second made
\* more than RateLimitSec seconds after the dispatch of the first, both are
\* dispatched (the first call ever made for a key is), and the second leaves
\* its own time in lastAlert[key].
C3_WindowReset ==
    /\ (last.made /\ last.prior.seen) => last.prior.firstVerdict = "dispatched"
    /\ (LastPasses /\ LastHasFirst /\ SinceFirst > config.RateLimitSec) =>
            /\ last.verdict = "dispatched"
            /\ last.spawn = last.nregs
            /\ last.after = last.at
            /\ \E f \in fanouts : f.id = last.id

C3_Witness ==
    /\ LastPasses /\ LastHasFirst
    /\ SinceFirst > config.RateLimitSec
    /\ last.verdict = "dispatched"
    /\ last.before = last.prior.dispAt
    /\ last.after = last.at
    /\ last.nregs > 0

\* C4, as claimed: a call whose payload Timestamp is within RateLimitSec
\* seconds of the recorded dispatch time of an earlier call of the same key
\* is suppressed, whatever the clock reads when Alert processes it.
C4_StampWithinWindowSuppressed ==
    (LastPasses /\ LastHasFirst
        /\ last.payload.Timestamp >= last.prior.dispAt
        /\ last.payload.Timestamp - last.prior.dispAt < config.RateLimitSec) =>
        last.verdict = "suppressed"

\* C4, amended: the window is measured with the clock at the moment Alert
\* processes the call, and the payload Timestamp plays no part: the call is
\* suppressed exactly when that clock reads less than RateLimitSec seconds
\* after the recorded dispatch time, also when the Timestamp lies within
\* the window and the clock does not.
C4_ClockWithinWindowSuppressed ==
    (LastPasses /\ LastHasFirst) =>
        /\ SinceFirst < config.RateLimitSec => last.verdict = "suppressed"
        /\ (/\ SinceFirst >= config.RateLimitSec
            /\ last.payload.Timestamp - last.prior.dispAt < config.RateLimitSec)
                => last.verdict = "dispatched"

C4_Witness ==
    /\ LastPasses /\ LastHasFirst
    /\ SinceFirst >= config.RateLimitSec
    /\ last.payload.Timestamp >= last.prior.dispAt
    /\ last.payload.Timestamp - last.prior.dispAt < config.RateLimitSec
    /\ last.verdict = "dispatched"

\* Two tuples of key fields that differ in the path and in nothing else.
OnlyPathDiffers(t, u) == t[1] = u[1] /\ t[2] = u[2] /\ t[4] = u[4] /\ t[3] # u[3]

\* C8: two calls whose payloads differ only in Path never suppress each
\* other: whether a call is suppressed is decided by the dispatches of its own
\* key fields alone, whatever was dispatched for the other path, and the call
\* leaves the entry of the other path as it was.
C8_PathIndependence ==
    LastPasses =>
        \A t \in DOMAIN hist :
            OnlyPathDiffers(t, KeyFields(last.payload)) =>
                /\ (last.verdict = "suppressed")
                        = (LastHasFirst /\ SinceFirst < config.RateLimitSec)
                /\ (last.verdict = "dispatched")
                        = ~(LastHasFirst /\ SinceFirst < config.RateLimitSec)
                /\ last.othersKept

C8_Witness ==
    /\ LastPasses
    /\ ~last.prior.seen
    /\ last.verdict = "dispatched"
    /\ \E t \in DOMAIN hist :
            /\ OnlyPathDiffers(t, KeyFields(last.payload))
            /\ hist[t].dispAt >= 0
            /\ last.at - hist[t].dispAt < config.RateLimitSec
            /\ lastAlert[getAlertKey(hist[t].dispPayload)] = hist[t].dispAt

\* C9: the key is a function of (ServiceName, Error, Path, Method) alone, and
\* a call is suppressed by a dispatch of the same four fields less than
\* RateLimitSec seconds before, whichever of Level, RequestID, IP,
\* UserAgent, File, Line, Stack and Timestamp the two payloads differ in.
C9_KeyOfFourFields ==
    /\ last.made =>
            \A q \in KeyShapes :
                KeyFields(q) = KeyFields(last.payload) =>
                    getAlertKey(q) = getAlertKey(last.payload)
    /\ (LastPasses /\ LastHasFirst /\ SinceFirst < config.RateLimitSec) =>
            /\ KeyFields(last.prior.dispPayload) = KeyFields(last.payload)
            /\ last.verdict = "suppressed"
            /\ ReachedNoProvider(last.id)

C9_Witness ==
    /\ LastPasses /\ LastHasFirst
    /\ last.verdict = "suppressed"
    /\ last.payload.Level = LevelCritical
    /\ last.prior.dispPayload.Level = LevelError
    /\ last.prior.dispPayload.RequestID # last.payload.RequestID
    /\ last.prior.dispPayload.Timestamp # last.payload.Timestamp

\* C5: under a minimum level that is one of WARN < ERROR < CRITICAL, a call
\* with a level below the minimum reaches no provider and writes nothing, and
\* a call with a level at or above it whose key is not rate-limited starts a
\* Send for every alerter registered at that moment.
C5_PriorityFilter ==
    (last.made /\ config.Enabled /\ config.MinLevel \in RecognizedLevels) =>
        /\ Below(last.payload.Level, config.MinLevel) =>
                /\ last.verdict = "dropped"
                /\ last.spawn = 0
                /\ ReachedNoProvider(last.id)
                /\ last.after = last.before
        /\ (/\ AtOrAbove(last.payload.Level, config.MinLevel)
            /\ ~(LastHasFirst /\ SinceFirst < config.RateLimitSec)) =>
                /\ last.verdict = "dispatched"
                /\ last.spawn = last.nregs
                /\ \E f \in fanouts :
                        /\ f.id = last.id
                        /\ Len(f.regs) = last.nregs
                        /\ ReachedEveryProvider(f.id, f.regs)

C5_Witness ==
    /\ last.made
    /\ last.payload.Level = config.MinLevel
    /\ config.MinLevel = LevelError
    /\ last.verdict = "dispatched"
    /\ last.nregs = Cardinality(AlerterPool)
    /\ Cardinality({s \in sends : s.id = last.id}) = last.nregs

\* C6, as claimed: a call whose level is none of WARN, ERROR, CRITICAL is
\* dropped under every MinLevel the Config can carry.
C6_UnrecognizedLevelDropped ==
    (last.made /\ last.payload.Level \notin RecognizedLevels) =>
        /\ last.verdict = "dropped"
        /\ ReachedNoProvider(last.id)

\* C7: on a manager that is not enabled, whatever was registered, alerted and
\* cleaned up, no goroutine was started, no Send was invoked and the
\* suppression map is empty.
C7_DisabledIsNoop ==
    ~config.Enabled =>
        /\ tasks = {}
        /\ sends = {}
        /\ errlog = {}
        /\ fanouts = {}
        /\ DOMAIN lastAlert = {}
        /\ last.made => last.verdict = "dropped" /\ last.spawn = 0

C7_Witness ==
    /\ ~config.Enabled
    /\ ncalls > 1
    /\ clock > 0
    /\ Len(alerters) > 0
    /\ last.payload.Level = LevelCritical
    /\ shouldAlert(config, last.payload.Level)

\* A registry of three alerters of which exactly one fails.
OneOfThreeFails(regs) ==
    /\ Len(regs) = Cardinality(AlerterPool)
    /\ Cardinality({i \in 1..Len(regs) : regs[i].fails}) = 1

\* C10: with three alerters registered of which one always fails, each of the
\* other two has, for every dispatched alert, its goroutine waiting to run or
\* its Send invoked, in every state the goroutines can reach in any order;
\* so when no goroutine is left each of the two has had every dispatched alert.
C10_FanOutIsolation ==
    \A f \in fanouts :
        OneOfThreeFails(f.regs) =>
            \A i \in 1..Len(f.regs) :
                ~f.regs[i].fails =>
                    \/ \E t \in tasks :
                            t.id = f.id /\ t.idx = i /\ t.alerter = f.regs[i]
                    \/ \E s \in sends :
                            s.id = f.id /\ s.idx = i /\ s.name = f.regs[i].name

C10_Witness ==
    /\ tasks = {}
    /\ Cardinality(fanouts) > 1
    /\ \A f \in fanouts :
            /\ OneOfThreeFails(f.regs)
            /\ \E e \in errlog : e.id = f.id /\ f.regs[e.idx].fails
            /\ Cardinality({s \in sends : s.id = f.id}) = Len(f.regs)

\* The Send of entry `i` of the registry for call `id` was invoked and has
\* returned.
SendCompleted(id, i) ==
    /\ ~crashed
    /\ \E s \in sends : s.id = id /\ s.idx = i
    /\ ~\E t \in stuck : t.id = id /\ t.idx = i

\* C11: the step in which Alert runs and returns invokes no Send and waits
\* for none; only Sends of an alerter that never returns are stuck; every
\* alerter of every dispatched alert, also of alerts dispatched after a
\* goroutine got stuck, has its goroutine waiting to run or its Send invoked;
\* and under fair scheduling no goroutine is left waiting, so the Send of
\* every other alerter is invoked and returns.
C11_HangBlocksOnlyItsTask ==
    /\ [][ncalls' # ncalls => sends' = sends /\ stuck' = stuck]_vars
    /\ [](\A t \in stuck : t.alerter.hangs)
    /\ [](\A f \in fanouts : \A i \in 1..Len(f.regs) :
            \/ \E t \in tasks : t.id = f.id /\ t.idx = i
            \/ f.regs[i].hangs /\ \E t \in stuck : t.id = f.id /\ t.idx = i
            \/ SendCompleted(f.id, i))
    /\ (tasks # {}) ~> (tasks = {})

\* A call made while a goroutine of an earlier call was stuck in Send has had
\* the Send of every other alerter completed, and the earlier call too.
C11_Witness ==
    /\ tasks = {}
    /\ Len(alerters) = Cardinality(HangPool)
    /\ \E t \in stuck : t.id = 1
    /\ \E f \in fanouts : f.id = 2 /\ Len(f.regs) = Cardinality(HangPool)
    /\ \A f \in fanouts : \A i \in 1..Len(f.regs) :
            ~f.regs[i].hangs => SendCompleted(f.id, i)
    /\ Cardinality(stuck) = 2

\* The concurrent calls with the key of `c` that had Send invoked and stored
\* a time less than RateLimitSec seconds from the one `c` stored.
DispatchedInWindowOf(c) ==
    {d \in DOMAIN calls :
        /\ calls[d].pc = "dispatched"
        /\ \E s \in sends : s.id = d
        /\ getAlertKey(calls[d].payload) = getAlertKey(calls[c].payload)
        /\ calls[d].at - calls[c].at < config.RateLimitSec
        /\ calls[c].at - calls[d].at < config.RateLimitSec}

\* C12: of concurrent calls of Alert with one key, a passing level and no
\* entry for the key, at most two are dispatched within one window.
C12_AtMostOneExtraDuplicate ==
    \A c \in DOMAIN calls :
        calls[c].pc = "dispatched" => Cardinality(DispatchedInWindowOf(c)) <= 2

\* The processes that are at a statement reading the map, and those at a
\* statement writing it.
MapReaders == {c \in DOMAIN calls : calls[c].pc = "lookup"}

MapWriters ==
    {c \in DOMAIN calls : calls[c].pc = "store"}
        \cup (IF cleaner.pc = "scan" THEN {Cleaner} ELSE {})

\* C13: with Alert and Cleanup running concurrently in any interleaving,
\* every lookup of lastAlert is made holding the read lock, every store by
\* markAlerted and the whole pass of Cleanup holding the write lock, the map
\* changes only in steps of the holder of the write lock, and a holder of the
\* write lock is never there together with another holder; so no process
\* writes the map while another reads or writes it.
C13_NoRaceOnLastAlert ==
    /\ [](/\ MapReaders \subseteq mu.readers
          /\ MapWriters \subseteq mu.writer
          /\ mu.writer # {} => Cardinality(mu.writer) = 1 /\ mu.readers = {}
          /\ MapWriters # {} => Cardinality(MapWriters \cup MapReaders) = 1)
    /\ [][lastAlert' # lastAlert => mu.writer # {} /\ mu'.writer = mu.writer]_vars

\* Cleanup is in its pass and has deleted the entry an earlier call stored,
\* while a caller of Alert that has made its lookup waits for the write lock.
C13_Witness ==
    /\ cleaner.pc = "scan"
    /\ mu.writer = {Cleaner}
    /\ DOMAIN lastAlert = {}
    /\ \E c \in DOMAIN calls : calls[c].pc = "dispatched"
    /\ \E c \in DOMAIN calls : calls[c].pc = "lock" /\ calls[c].exists

\* Seconds since the time recorded for key `k`.
AgeOf(k) == clock - lastAlert[k]

\* C14: a pass of Cleanup removes every entry whose recorded time is more
\* than 2 * RateLimitSec seconds old when the pass looks at it, keeps every
\* entry newer than that with its time, and adds none; so when every entry
\* is that old the map is empty afterwards.
C14_CleanupBound ==
    [][Cleanup =>
        /\ DOMAIN lastAlert' \subseteq DOMAIN lastAlert
        /\ \A k \in DOMAIN lastAlert :
                /\ AgeOf(k) > 2 * config.RateLimitSec => k \notin DOMAIN lastAlert'
                /\ AgeOf(k) < 2 * config.RateLimitSec =>
                        k \in DOMAIN lastAlert' /\ lastAlert'[k] = lastAlert[k]
        /\ (\A k \in DOMAIN lastAlert : AgeOf(k) > 2 * config.RateLimitSec) =>
                DOMAIN lastAlert' = {}
      ]_vars

\* Two keys were dispatched; Cleanup has removed the entry of the one that
\* is older than twice the window and has kept the other with its time.
C14_Witness ==
    \E old, new \in PathShapes :
        /\ HistOf(hist, old).seen /\ HistOf(hist, new).seen
        /\ HistOf(hist, old).dispAt >= 0
        /\ clock - HistOf(hist, old).dispAt > 2 * config.RateLimitSec
        /\ getAlertKey(old) \notin DOMAIN lastAlert
        /\ clock - HistOf(hist, new).dispAt < 2 * config.RateLimitSec
        /\ getAlertKey(new) \in DOMAIN lastAlert
        /\ lastAlert[getAlertKey(new)] = HistOf(hist, new).dispAt

\* The entry a payload's key has when no pass of Cleanup is made: the time of
\* the last dispatch in the history `h` of its key fields, if there was one.
NoCleanupEntry(h) ==
    IF h.seen /\ h.dispAt >= 0 THEN h.dispAt ELSE -1

NoCleanupMap(h, payload) ==
    IF NoCleanupEntry(h) >= 0
    THEN [k \in {getAlertKey(payload)} |-> NoCleanupEntry(h)]
    ELSE EmptyMap

\* C15: wherever passes of Cleanup are placed among the calls, the map holds
\* a part of the entries it would hold without them, with the same times,
\* and at every moment every payload gets from Alert what it would get
\* without them; so, call after call, the same alerts are dispatched.
C15_CleanupKeepsBehaviour ==
    /\ Cardinality(DOMAIN lastAlert) <= Cardinality(DOMAIN hist)
    /\ \A p \in PathShapes :
            LET twin == NoCleanupMap(HistOf(hist, p), p)
            IN  /\ \A k \in DOMAIN lastAlert \cap DOMAIN twin : lastAlert[k] = twin[k]
                /\ DOMAIN twin = {} => getAlertKey(p) \notin DOMAIN lastAlert
                /\ isRateLimited(lastAlert, config, p, clock)
                        = isRateLimited(twin, config, p, clock)
    /\ last.made =>
            last.verdict =
                alertOutcome(config, alerters, NoCleanupMap(last.prior, last.payload),
                             last.payload, last.at).verdict

\* A call found no entry for its key, Cleanup having removed the one an
\* earlier dispatch had stored, and was dispatched, as the window had passed.
C15_Witness ==
    /\ last.made
    /\ last.verdict = "dispatched"
    /\ last.before = -1
    /\ last.prior.seen
    /\ last.prior.dispAt >= 0
    /\ last.at - last.prior.dispAt > 2 * config.RateLimitSec

\* The goroutines of call `id` for entry `i` that wait to run, and the Sends
\* made for it.
PendingFor(id, i) == {t \in tasks : t.id = id /\ t.idx = i}

SentFor(id, i) == {x \in sends : x.id = id /\ x.idx = i}

\* C16: every dispatched alert has, for every entry of the registry, one
\* goroutine that waits or one Send made, never both and never a second one,
\* for the alerter of that entry and with the payload given to Alert; nothing
\* is sent for calls that were not dispatched or beyond the registry; an
\* error of Send has its line with the alerter's name and is not sent again;
\* and the step that prints it changes nothing of the Manager or of what
\* Alert returned, which is one of its three returns.
C16_OneSendPerEntry ==
    /\ [](\A f \in fanouts : \A i \in 1..Len(f.regs) :
            /\ Cardinality(PendingFor(f.id, i)) + Cardinality(SentFor(f.id, i)) = 1
            /\ \A t \in PendingFor(f.id, i) : t.alerter = f.regs[i]
            /\ \A x \in SentFor(f.id, i) :
                    /\ x.name = f.regs[i].name
                    /\ f.regs[i].fails <=>
                            [id |-> f.id, idx |-> i, name |-> f.regs[i].name]
                                \in errlog)
    /\ [](\A r \in tasks \cup sends \cup errlog :
            \E f \in fanouts : f.id = r.id /\ r.idx \in 1..Len(f.regs))
    /\ [](\A r, q \in tasks \cup sends : r.id = q.id => r.payload = q.payload)
    /\ [](last.made =>
            /\ last.verdict \in {"dropped", "suppressed", "dispatched"}
            /\ \A r \in tasks \cup sends : r.id = last.id => r.payload = last.payload)
    /\ [][errlog' # errlog =>
            UNCHANGED <<config, alerters, lastAlert, ncalls, fanouts, last, hist>>
      ]_vars

\* An alert went to three alerters: each had one Send, the failing one has
\* its line, and the duplicate that followed had no Send.
C16_Witness ==
    /\ tasks = {}
    /\ ncalls = 2
    /\ last.verdict = "suppressed"
    /\ \E f \in fanouts :
            /\ fanouts = {f}
            /\ OneOfThreeFails(f.regs)
            /\ Cardinality(sends) = Len(f.regs)
            /\ Cardinality(errlog) = 1

\* C17: when the Send of one alerter has panicked, the process goes on, and
\* every other alerter of every dispatched alert has its goroutine still to
\* run or its Send made and returned.
C17_PanicContained ==
    \A f \in fanouts : \A i \in 1..Len(f.regs) :
        f.regs[i].panics /\ SentFor(f.id, i) # {} =>
            /\ ~crashed
            /\ \A g \in fanouts : \A j \in 1..Len(g.regs) :
                    ~g.regs[j].panics =>
                        PendingFor(g.id, j) # {} \/ SendCompleted(g.id, j)

\* The number of entries of `regs` that are the alerter `a`, and the number
\* of goroutines waiting and of Sends made for call `id` to the alerter `a`.
EntriesOf(regs, a) == Cardinality({i \in 1..Len(regs) : regs[i] = a})

HandedTo(id, a) ==
    Cardinality({t \in tasks : t.id = id /\ t.alerter = a})
        + Cardinality({x \in sends : x.id = id /\ x.name = a.name})

C19_RegisterIdempotent ==
    /\ \A a \in DupPool : EntriesOf(alerters, a) <= 1
    /\ \A f \in fanouts : \A a \in DupPool :
            EntriesOf(regcalls, a) >= 1 => HandedTo(f.id, a) <= 1

\* Call `id` was dispatched and every alerter registered then has exactly
\* one goroutine waiting or one Send made for it.
OneSendPerProvider(id) ==
    \E f \in fanouts :
        /\ f.id = id
        /\ \A i \in 1..Len(f.regs) :
                Cardinality(PendingFor(id, i)) + Cardinality(SentFor(id, i)) = 1
        /\ \A r \in tasks \cup sends : r.id = id => r.idx \in 1..Len(f.regs)

\* C20: with min_level ERROR and RateLimitSec 5, and the calls made one after
\* the other: the WARN call has no Send; the ERROR call for "/a", "x" has one
\* Send per provider; a CRITICAL call for "/a", "x" made in the same second
\* has none; the same payload 6 seconds after the ERROR call has one Send per
\* provider.
C20_Scenario ==
    /\ ncalls >= 1 => ReachedNoProvider(1)
    /\ ncalls >= 2 => OneSendPerProvider(2)
    /\ last.made /\ last.id = 1 => last.verdict = "dropped"
    /\ last.made /\ last.id = 2 => last.verdict = "dispatched"
    /\ last.made /\ last.id = 3 /\ last.at = last.prior.dispAt =>
            last.verdict = "suppressed" /\ ReachedNoProvider(3)
    /\ last.made /\ last.id = 4 /\ last.prior.dispId = 2
            /\ last.prior.dups = 1 /\ last.at = last.prior.dispAt + 6 =>
            last.verdict = "dispatched" /\ OneSendPerProvider(4)

\* The four calls were made, the last 6 seconds after the ERROR call, with
\* two providers: two Sends for the ERROR call and two for the last call,
\* none for the other two.
C20_Witness ==
    /\ tasks = {}
    /\ Len(alerters) = 2
    /\ last.made /\ last.id = 4
    /\ last.payload.Level = LevelCritical
    /\ last.prior.dispId = 2 /\ last.prior.dispPayload.Level = LevelError
    /\ last.prior.dups = 1
    /\ last.at = last.prior.dispAt + 6
    /\ {x.id : x \in sends} = {2, 4}
    /\ Cardinality(sends) = 4

\* C21: NewManager given a RateLimitSec of zero or less uses a window of 300
\* seconds, so that duplicates are still suppressed; it keeps a positive
\* RateLimitSec and the other settings as given; and the registry and the
\* suppression map are empty until Register and Alert are called.
C21_NewManagerDefault ==
    /\ given.RateLimitSec <= 0 => config.RateLimitSec = 300
    /\ given.RateLimitSec > 0 => config.RateLimitSec = given.RateLimitSec
    /\ config.Enabled = given.Enabled
    /\ config.MinLevel = given.MinLevel
    /\ regcalls = <<>> => alerters = <<>>
    /\ ncalls = 0 => DOMAIN lastAlert = {}
    /\ (/\ given.RateLimitSec <= 0
        /\ last.made /\ last.verdict # "dropped"
        /\ LastHasFirst /\ SinceFirst < 300) =>
            last.verdict = "suppressed" /\ ReachedNoProvider(last.id)

\* A manager made with RateLimitSec 0 has suppressed a duplicate that came
\* seconds after the dispatch.
C21_Witness ==
    /\ given.RateLimitSec = 0
    /\ config.RateLimitSec = 300
    /\ last.made /\ last.verdict = "suppressed"
    /\ LastHasFirst /\ SinceFirst > 2
    /\ Len(alerters) > 0

\* The keys of the alerts dispatched so far.
DispatchedKeys ==
    {getAlertKey(hist[t].dispPayload) : t \in {u \in DOMAIN hist : hist[u].dispAt >= 0}}

\* C22: the map has entries of dispatched alerts only.  A step that is not a
\* pass of Cleanup removes no key; it adds a key only as a call of Alert that
\* is dispatched, and then the key of that call; and if the keys were those
\* of all alerts dispatched so far, they still are.  So, from the empty map
\* of NewManager on, as long as Cleanup is not called the key set does not
\* shrink and is the set of the keys of all dispatched alerts.
C22_GrowsWithoutCleanup ==
    /\ [](DOMAIN lastAlert \subseteq DispatchedKeys)
    /\ [][~Cleanup =>
            /\ DOMAIN lastAlert \subseteq DOMAIN lastAlert'
            /\ DOMAIN lastAlert = DispatchedKeys => DOMAIN lastAlert' = DispatchedKeys'
            /\ DOMAIN lastAlert' # DOMAIN lastAlert =>
                    /\ ncalls' = ncalls + 1
                    /\ last'.verdict = "dispatched"
                    /\ DOMAIN lastAlert' = DOMAIN lastAlert \cup {getAlertKey(last'.payload)}
       ]_vars
    /\ [](ncalls = 0 => DOMAIN lastAlert = {} /\ DispatchedKeys = {})

\* Two keys were dispatched and both have their entry, one of them older than
\* twice the window: no pass of Cleanup was made since it got that old.
C22_Witness ==
    /\ Cardinality(DispatchedKeys) = 2
    /\ DOMAIN lastAlert = DispatchedKeys
    /\ \E k \in DOMAIN lastAlert : clock - lastAlert[k] > 2 * config.RateLimitSec
    /\ last.made /\ last.verdict = "suppressed"

\* The level of the table of the README.
TableLevel(statusCode, err) ==
    IF statusCode >= 500 \/ err # NilError THEN "CRITICAL"
    ELSE IF statusCode >= 400 THEN "ERROR"
    ELSE IF statusCode >= 300 THEN "WARN"
    ELSE "INFO"

\* C23, as claimed: every request is logged, and alerted if it is, at INFO
\* for a status of 200 to 299, WARN for 300 to 399, ERROR for 400 to 499, and
\* CRITICAL for 500 and above or when an error was passed to
\* LogRequestWithError.
C23_LevelFollowsTable ==
    /\ \A i \in 1..Len(loki) :
            loki[i].level = TableLevel(loki[i].status, loki[i].err)
    /\ last.made =>
            \A i \in 1..Len(loki) :
                loki[i].alert = last.id =>
                    last.payload.Level = TableLevel(loki[i].status, loki[i].err)

\* The entries of the error log for request `id` written by `by`.
EntriesBy(id, by) ==
    Cardinality({i \in 1..Len(errfile) : errfile[i].req = id /\ errfile[i].by = by})

\* GinHTTPErrorLogger has finished for the request in ginctx.
PastErrorLogger == ginctx.pc \in {"logger", "done"}

\* C24: for a request through GinHTTPErrorLogger: the handler's entries are
\* those of its calls of LogErrorWithMark with an error, one for one call;
\* when the handler marked the error GinHTTPErrorLogger adds none, so a
\* request whose handler called LogErrorWithMark once has exactly one entry;
\* when the status is 400 or more and the handler did not mark, it writes
\* exactly one; when the status is below 400 it writes none; and it writes
\* none before the handler has returned.
C24_NoDuplicateErrors ==
    ginctx.pc # "none" =>
        /\ EntriesBy(ginctx.id, "handler") = ginctx.withError
        /\ ~PastErrorLogger => EntriesBy(ginctx.id, "middleware") = 0
        /\ PastErrorLogger =>
                /\ IsErrorLogged(ginctx) => EntriesBy(ginctx.id, "middleware") = 0
                /\ (ginctx.withError = 1 /\ ginctx.withNil = 0) =>
                        /\ EntriesBy(ginctx.id, "handler") = 1
                        /\ EntriesBy(ginctx.id, "middleware") = 0
                /\ (ginctx.status >= 400 /\ ~IsErrorLogged(ginctx)) =>
                        /\ EntriesBy(ginctx.id, "middleware") = 1
                        /\ EntriesBy(ginctx.id, "handler") = 0
                /\ ginctx.status < 400 => EntriesBy(ginctx.id, "middleware") = 0

\* The second request had its error logged by the handler and ended with
\* status 500: the one entry; the first was not marked and ended with a
\* status that is an error: the entry of GinHTTPErrorLogger.
C24_Witness ==
    /\ ginctx.pc = "done" /\ ginctx.id = 2
    /\ ginctx.status = 500
    /\ "panic_info" \notin ginctx.keys
    /\ ginctx.withError = 1 /\ ginctx.withNil = 0
    /\ EntriesBy(2, "handler") = 1 /\ EntriesBy(2, "middleware") = 0
    /\ EntriesBy(1, "handler") = 0 /\ EntriesBy(1, "middleware") = 1
    /\ Len(errfile) = 2
    /\ errfile[1].err = HTTPError

\* Every Send of the fan-out `f` was made and returned an error.
AllSendsFailed(f) ==
    /\ Len(f.regs) > 0
    /\ \A i \in 1..Len(f.regs) :
            /\ f.regs[i].fails
            /\ SentFor(f.id, i) # {}
            /\ [id |-> f.id, idx |-> i, name |-> f.regs[i].name] \in errlog

\* C25: when a dispatched Alert has returned, lastAlert has the time of the
\* call under its key, with the goroutines of the call still to run, with an
\* empty registry and with alerters that all fail; no Send and no error of a
\* Send changes the map; so a call of the same key less than RateLimitSec
\* seconds later is suppressed and reaches no provider, and no alerter gets
\* a second Send for the alert that was not delivered.
C25_MarkedBeforeDelivery ==
    /\ [](last.made /\ last.verdict = "dispatched" =>
            /\ getAlertKey(last.payload) \in DOMAIN lastAlert
            /\ lastAlert[getAlertKey(last.payload)] = last.at)
    /\ [][\A t \in tasks' \ tasks :
            /\ getAlertKey(t.payload) \in DOMAIN lastAlert'
            /\ lastAlert'[getAlertKey(t.payload)] = clock]_vars
    /\ [][sends' # sends \/ errlog' # errlog => lastAlert' = lastAlert]_vars
    /\ [](LastPasses /\ LastHasFirst /\ SinceFirst < config.RateLimitSec =>
            /\ last.verdict = "suppressed"
            /\ ReachedNoProvider(last.id))
    /\ [](\A f \in fanouts : \A i \in 1..Len(f.regs) :
            Cardinality(PendingFor(f.id, i)) + Cardinality(SentFor(f.id, i)) = 1)

\* An alert went to alerters that all failed; the call of the same key that
\* came a second later was suppressed, and nothing was sent again.
C25_Witness ==
    /\ tasks = {}
    /\ last.made /\ last.verdict = "suppressed"
    /\ LastHasFirst /\ SinceFirst > 0
    /\ \E f \in fanouts :
            /\ fanouts = {f}
            /\ f.id = last.prior.dispId
            /\ AllSendsFailed(f)
            /\ Cardinality(sends) = Len(f.regs)

\* C26, as claimed: payloads that differ in one of ServiceName, Error, Path,
\* Method have different keys, also with colons in the fields, so a call is
\* suppressed by a dispatch of its own four fields and by no other.
C26_DistinctTuplesIndependent ==
    /\ \A t, u \in DOMAIN hist :
            t # u => getAlertKey(hist[t].dispPayload) # getAlertKey(hist[u].dispPayload)
    /\ LastPasses =>
            (last.verdict = "suppressed")
                = (LastHasFirst /\ SinceFirst < config.RateLimitSec)

\* C27: no time in lastAlert is later than the clock; a step that leaves a
\* key in the map leaves its time as it was or later; and the time a call
\* stores is no earlier than any time stored before it, also when the entry
\* was deleted in between and when concurrent calls of one key have all
\* passed the check and each stores its own time.
C27_TimesMonotonic ==
    /\ [](\A k \in DOMAIN lastAlert : lastAlert[k] <= clock)
    /\ [][\A k \in DOMAIN lastAlert \cap DOMAIN lastAlert' :
            lastAlert'[k] >= lastAlert[k]]_vars
    /\ [][\A c \in DOMAIN calls' :
            (c \in DOMAIN calls /\ calls[c].pc = "store") =>
                \A d \in DOMAIN calls :
                    calls[d].at >= 0 => lastAlert'[getAlertKey(calls[c].payload)] >= calls[d].at
       ]_vars

\* Two concurrent calls of one key both passed the check; the one that
\* entered Alert first stored its time last, over the time of the other.
C27_Witness ==
    \E c, d \in DOMAIN calls :
        /\ c < d
        /\ calls[c].payload.Timestamp < calls[d].payload.Timestamp
        /\ calls[c].pc = "unlock"
        /\ calls[d].pc \in {"fanout", "dispatched"}
        /\ ~calls[c].exists /\ ~calls[d].exists
        /\ calls[c].at >= calls[d].at
        /\ lastAlert[getAlertKey(calls[c].payload)] = calls[c].at

\* The entries of `la` other than that of key `key`.
EntriesBut(la, key) == [k \in DOMAIN la \ {key} |-> la[k]]

\* C28: no step changes the Config.  A call of Alert leaves the registry and
\* every entry but that of its own key as they were; a call that is dropped,
\* by the enabled check or by the level check, leaves the map, the
\* goroutines and the history of its key as they were, so the first call of
\* a key that passes the checks is dispatched whatever was dropped before.
\* Register changes the registry and nothing else of the Manager.  Cleanup
\* leaves the registry alone, adds no entry and leaves every entry it keeps
\* with its time.
C28_FrameConditions ==
    /\ [][config' = config]_vars
    /\ [][ncalls' # ncalls =>
            /\ alerters' = alerters
            /\ EntriesBut(lastAlert', getAlertKey(last'.payload))
                    = EntriesBut(lastAlert, getAlertKey(last'.payload))
            /\ last'.verdict = "dropped" =>
                    UNCHANGED <<lastAlert, tasks, fanouts, hist>>
       ]_vars
    /\ [](LastPasses /\ ~LastHasFirst => last.verdict = "dispatched")
    /\ [](last.made /\ ~(config.Enabled /\ shouldAlert(config, last.payload.Level)) =>
            last.verdict = "dropped")
    /\ [][regcalls' # regcalls =>
            /\ Len(alerters') = Len(alerters) + 1
            /\ UNCHANGED <<lastAlert, tasks, sends, errlog, ncalls, fanouts, last>>
       ]_vars
    /\ [][Cleanup =>
            /\ alerters' = alerters
            /\ \A k \in DOMAIN lastAlert' :
                    k \in DOMAIN lastAlert /\ lastAlert'[k] = lastAlert[k]
       ]_vars

\* A WARN call for "/a" was dropped and left nothing; the ERROR call for
\* "/a" that came next was dispatched, and the entry of "/b" is not there.
C28_Witness ==
    /\ config.Enabled
    /\ ncalls = 2
    /\ last.made /\ last.verdict = "dispatched"
    /\ last.payload.Path = "/a"
    /\ ~last.prior.seen
    /\ last.before = -1
    /\ DOMAIN hist = {KeyFields(last.payload)}
    /\ DOMAIN lastAlert = {getAlertKey(last.payload)}
    /\ Len(alerters) = Cardinality(OneAlerter)

\* C29: a call made exactly RateLimitSec seconds after the recorded time of
\* its key is dispatched and one made a second earlier is suppressed; a pass
\* of Cleanup keeps, with its time, an entry that is exactly 2 * RateLimitSec
\* seconds old and removes one that is a second older.
C29_StrictComparisons ==
    /\ [](LastPasses /\ LastHasFirst /\ SinceFirst = config.RateLimitSec =>
            /\ last.verdict = "dispatched"
            /\ last.before = last.prior.dispAt
            /\ last.after = last.at)
    /\ [](LastPasses /\ LastHasFirst /\ SinceFirst = config.RateLimitSec - 1 =>
            last.verdict = "suppressed")
    /\ [][Cleanup =>
            \A k \in DOMAIN lastAlert :
                /\ AgeOf(k) = 2 * config.RateLimitSec =>
                        k \in DOMAIN lastAlert' /\ lastAlert'[k] = lastAlert[k]
                /\ AgeOf(k) = 2 * config.RateLimitSec + 1 => k \notin DOMAIN lastAlert'
       ]_vars

\* Of two dispatched keys, the one that is one second more than twice the
\* window old was removed by Cleanup, and the one that is exactly twice the
\* window old is still there with its time.
C29_Witness ==
    \E old, new \in PathShapes :
        /\ HistOf(hist, old).seen /\ HistOf(hist, new).seen
        /\ HistOf(hist, old).dispAt >= 0 /\ HistOf(hist, new).dispAt >= 0
        /\ clock - HistOf(hist, old).dispAt = 2 * config.RateLimitSec + 1
        /\ getAlertKey(old) \notin DOMAIN lastAlert
        /\ clock - HistOf(hist, new).dispAt = 2 * config.RateLimitSec
        /\ getAlertKey(new) \in DOMAIN lastAlert
        /\ lastAlert[getAlertKey(new)] = HistOf(hist, new).dispAt

\* The statements at which a caller holds the read lock, holds the write
\* lock, and has returned from Alert.
ReadLocked == {"lookup", "runlock"}

WriteLocked == {"store", "unlock"}

Returned == {"dropped", "suppressed", "dispatched"}

\* No call of Alert or of Cleanup is in progress and nobody holds the mutex.
Quiet ==
    /\ \A c \in DOMAIN calls : calls[c].pc \in Returned
    /\ cleaner.pc = "idle"
    /\ mu = Unlocked

\* C30: with any number of callers in any interleaving, the holders of the
\* mutex are the callers between an acquisition and its release: a caller
\* that requests the mutex does not hold it and a caller that has returned
\* does not hold it; the goroutines of the fan-out exist only for calls
\* whose markAlerted has released the mutex, so no Send runs with the mutex
\* held by its call, and a Send that never returns keeps no caller waiting;
\* and under fair scheduling there is, again and again, a moment at which
\* every call of Alert and of Cleanup made so far has returned and the mutex
\* is free: no call stays in progress for ever and every acquisition is
\* followed by its release.
C30_CallsReturn ==
    /\ [](\A c \in DOMAIN calls :
            /\ c \in mu.readers <=> calls[c].pc \in ReadLocked
            /\ c \in mu.writer <=> calls[c].pc \in WriteLocked)
    /\ [](Cleaner \in mu.writer <=> cleaner.pc = "scan")
    /\ [](Cleaner \notin mu.readers)
    /\ [](\A t \in tasks \cup stuck :
            /\ calls[t.id].pc = "dispatched"
            /\ t.id \notin mu.readers \cup mu.writer)
    /\ []<>Quiet

\* The calls have all returned, one of them suppressed, and the mutex is
\* free, while the Send of a dispatched call is stuck for ever.
C30_Witness ==
    /\ stuck # {}
    /\ ncalls = MaxFewCalls
    /\ Quiet
    /\ \E c \in DOMAIN calls : calls[c].pc = "suppressed"

====
